---- MODULE Spec2Model ----
(***************************************************************************)
(* The KIPR backend client: the REST client of src/src/Rest.ts and the     *)
(* Brief classes of the abstract API (src/unnamed/part_000).               *)
(*                                                                         *)
(* The program's state is the set of client-side objects the calls have    *)
(* constructed (RestClient, RestUser, RestProject, RestVersion, RestFile), *)
(* each with the private fields its constructor assigns.  No method of     *)
(* Rest.ts keeps any other state.  One history variable, `last`, records    *)
(* what a caller observes: the most recent call and its result.            *)
(***************************************************************************)
EXTENDS Integers, Sequences, FiniteSets

VARIABLES clients, users, projects, versions, files, last

vars == <<clients, users, projects, versions, files, last>>

heap == <<clients, users, projects, versions, files>>

----------------------------------------------------------------------------
(* Bounds and input sets *)

\* The number of objects the calls may construct in one run, beside the first
\* client.
MaxObjects == 5

\* An object reference is the position of the object in the heap of its class;
\* 0 is the reference of a field that was never assigned (undefined).
undefined == 0

\* The value of a string field that was never assigned.
undefinedStr == "undefined"

DEFAULT_URL == "https://api.kipr.org"

\* Handles passed to open/restore/delete: the empty handle the creates return
\* and one handle per class as in the usage example of Rest.ts.
ProjectHandles == {"", "asdasd"}
VersionHandles == {"", "asdasdds"}
FileHandles == {"", "f1"}

Paths == {"/", "/main.c"}
Contents == {"", "asdasdsad"}
Names == {"robot-code"}

NumObjects == (Len(clients) - 1) + Len(users) + Len(projects) + Len(versions) + Len(files)

CanAllocate == NumObjects < MaxObjects

----------------------------------------------------------------------------
(* Results of a call *)

Void == [type |-> "void", obj |-> 0, str |-> "", list |-> <<>>]
Obj(i) == [type |-> "object", obj |-> i, str |-> "", list |-> <<>>]
Str(s) == [type |-> "string", obj |-> 0, str |-> s, list |-> <<>>]
List(l) == [type |-> "list", obj |-> 0, str |-> "", list |-> l]
Undef == [type |-> "undefined", obj |-> 0, str |-> "", list |-> <<>>]
Throw(e) == [type |-> "error", obj |-> 0, str |-> e, list |-> <<>>]

\* A Brief: its owner back-reference (version_, project_ or user_), its display
\* field (path_ or name_) and its handle_.
Brief(parent, name, handle) == [parent_ |-> parent, name_ |-> name, handle_ |-> handle]

NoBrief == Brief(0, "", "")

Call(op, recv, arg, brief, ret) ==
    [op |-> op, recv |-> recv, arg |-> arg, brief |-> brief, ret |-> ret]

----------------------------------------------------------------------------
(* Constructors *)

RestClient(url) == [url_ |-> url]

RestUser(token, client) == [token_ |-> token, client_ |-> client]

\* name_ is declared optional and never assigned.
RestProject(handle, user) == [handle_ |-> handle, user_ |-> user, name_ |-> undefinedStr]

RestVersion(handle, project) == [handle_ |-> handle, project_ |-> project]

RestFile(handle, version) == [handle_ |-> handle, version_ |-> version]

\* The private fields of the objects of each class; a back-reference is the
\* position of an object the client constructed earlier.
TypeOK ==
    /\ \A i \in DOMAIN clients : clients[i] = RestClient(DEFAULT_URL)
    /\ \A i \in DOMAIN users :
          users[i].token_ = "" /\ users[i].client_ \in DOMAIN clients
    /\ \A i \in DOMAIN projects :
          /\ projects[i].handle_ \in ProjectHandles
          /\ projects[i].user_ \in DOMAIN users
          /\ projects[i].name_ = undefinedStr
    /\ \A i \in DOMAIN versions :
          /\ versions[i].handle_ \in VersionHandles
          /\ versions[i].project_ \in DOMAIN projects
    /\ \A i \in DOMAIN files :
          /\ files[i].handle_ \in FileHandles
          /\ files[i].version_ \in DOMAIN versions

----------------------------------------------------------------------------
(* The objects the collection methods return *)

RestClient_login(client, username, password) == RestUser("", client)

RestUser_Projects_create(user, name) == RestProject("", user)

RestUser_Projects_open(user, handle) == RestProject(handle, user)

RestProject_Versions_create(project, name) == RestVersion("", project)

RestProject_Versions_restore(project, handle) == RestVersion(handle, project)

RestProject_Versions_open(project, handle) == RestVersion(handle, project)

RestVersion_Files_create(version, path) == RestFile("", version)

\* A slip that copies create's constructor call into open.
RestVersion_Files_open_empty(version, handle) == RestFile("", version)

RestVersion_Files_open(version, handle) == RestFile(handle, version)

\* The lists are always empty.
RestUser_Projects_list(user) == <<>>

RestProject_Versions_list(project) == <<>>

RestVersion_Files_list(version) == <<>>

\* The strings the File getters return.
RestFile_path(file) == ""

RestFile_read(file) == ""

----------------------------------------------------------------------------
\* The state once the entry point has run `new RestClient()`: url defaults to
\* DEFAULT_URL, and nothing else exists yet.
Init ==
    /\ clients = <<RestClient(DEFAULT_URL)>>
    /\ users = <<>>
    /\ projects = <<>>
    /\ versions = <<>>
    /\ files = <<>>
    /\ last = Call("", 0, "", NoBrief, Void)

----------------------------------------------------------------------------
(* RestClient *)

\* new RestClient(): url defaults to DEFAULT_URL.
NewRestClient ==
    /\ CanAllocate
    /\ clients' = Append(clients, RestClient(DEFAULT_URL))
    /\ last' = Call("new RestClient", 0, DEFAULT_URL, NoBrief, Obj(Len(clients) + 1))
    /\ UNCHANGED <<users, projects, versions, files>>

Login ==
    \E c \in 1..Len(clients) :
        /\ CanAllocate
        /\ users' = Append(users, RestClient_login(c, "", ""))
        /\ last' = Call("login", c, "", NoBrief, Obj(Len(users) + 1))
        /\ UNCHANGED <<clients, projects, versions, files>>

----------------------------------------------------------------------------
(* RestUser.Projects *)

Projects_list ==
    \E u \in 1..Len(users) :
        /\ last' = Call("Projects.list", u, "", NoBrief, List(RestUser_Projects_list(u)))
        /\ UNCHANGED heap

Projects_create ==
    \E u \in 1..Len(users), name \in Names :
        /\ CanAllocate
        /\ projects' = Append(projects, RestUser_Projects_create(u, name))
        /\ last' = Call("Projects.create", u, name, NoBrief, Obj(Len(projects) + 1))
        /\ UNCHANGED <<clients, users, versions, files>>

Projects_open ==
    \E u \in 1..Len(users), handle \in ProjectHandles :
        /\ CanAllocate
        /\ projects' = Append(projects, RestUser_Projects_open(u, handle))
        /\ last' = Call("Projects.open", u, handle, NoBrief, Obj(Len(projects) + 1))
        /\ UNCHANGED <<clients, users, versions, files>>

\* The body is empty.
Projects_delete ==
    \E u \in 1..Len(users), handle \in ProjectHandles :
        /\ last' = Call("Projects.delete", u, handle, NoBrief, Void)
        /\ UNCHANGED heap

----------------------------------------------------------------------------
(* RestProject *)

\* `if (name) return this.name_; return '';` reads the global `name`, not a
\* member: where the global is falsy the result is '', where it is truthy the
\* result is the unassigned name_, and where no such global exists the read
\* throws a ReferenceError.
RestProject_name(project) == {Str(""), Undef, Throw("ReferenceError")}

Project_name ==
    \E p \in 1..Len(projects) :
        \E r \in RestProject_name(p) :
            /\ last' = Call("Project.name", p, "", NoBrief, r)
            /\ UNCHANGED heap

\* The body is empty; the object stays usable.
Project_close ==
    \E p \in 1..Len(projects) :
        /\ last' = Call("Project.close", p, "", NoBrief, Void)
        /\ UNCHANGED heap

----------------------------------------------------------------------------
(* RestProject.Versions *)

Versions_list ==
    \E p \in 1..Len(projects) :
        /\ last' = Call("Versions.list", p, "", NoBrief, List(RestProject_Versions_list(p)))
        /\ UNCHANGED heap

Versions_create ==
    \E p \in 1..Len(projects), name \in Names :
        /\ CanAllocate
        /\ versions' = Append(versions, RestProject_Versions_create(p, name))
        /\ last' = Call("Versions.create", p, name, NoBrief, Obj(Len(versions) + 1))
        /\ UNCHANGED <<clients, users, projects, files>>

Versions_restore ==
    \E p \in 1..Len(projects), handle \in VersionHandles :
        /\ CanAllocate
        /\ versions' = Append(versions, RestProject_Versions_restore(p, handle))
        /\ last' = Call("Versions.restore", p, handle, NoBrief, Obj(Len(versions) + 1))
        /\ UNCHANGED <<clients, users, projects, files>>

Versions_open ==
    \E p \in 1..Len(projects), handle \in VersionHandles :
        /\ CanAllocate
        /\ versions' = Append(versions, RestProject_Versions_open(p, handle))
        /\ last' = Call("Versions.open", p, handle, NoBrief, Obj(Len(versions) + 1))
        /\ UNCHANGED <<clients, users, projects, files>>

----------------------------------------------------------------------------
(* RestVersion.Files *)

Files_list ==
    \E v \in 1..Len(versions) :
        /\ last' = Call("Files.list", v, "", NoBrief, List(RestVersion_Files_list(v)))
        /\ UNCHANGED heap

Files_create ==
    \E v \in 1..Len(versions), path \in Paths :
        /\ CanAllocate
        /\ files' = Append(files, RestVersion_Files_create(v, path))
        /\ last' = Call("Files.create", v, path, NoBrief, Obj(Len(files) + 1))
        /\ UNCHANGED <<clients, users, projects, versions>>

Files_open ==
    \E v \in 1..Len(versions), handle \in FileHandles :
        /\ CanAllocate
        /\ files' = Append(files, RestVersion_Files_open(v, handle))
        /\ last' = Call("Files.open", v, handle, NoBrief, Obj(Len(files) + 1))
        /\ UNCHANGED <<clients, users, projects, versions>>

----------------------------------------------------------------------------
(* RestFile *)

File_path ==
    \E f \in 1..Len(files) :
        /\ last' = Call("File.path", f, "", NoBrief, Str(RestFile_path(f)))
        /\ UNCHANGED heap

\* The body is empty.
File_move ==
    \E f \in 1..Len(files), path \in Paths :
        /\ last' = Call("File.move", f, path, NoBrief, Void)
        /\ UNCHANGED heap

File_read ==
    \E f \in 1..Len(files) :
        /\ last' = Call("File.read", f, "", NoBrief, Str(RestFile_read(f)))
        /\ UNCHANGED heap

\* The body is empty.
File_update ==
    \E f \in 1..Len(files), contents \in Contents :
        /\ last' = Call("File.update", f, contents, NoBrief, Void)
        /\ UNCHANGED heap

\* The body is empty; the object stays usable.
File_close ==
    \E f \in 1..Len(files) :
        /\ last' = Call("File.close", f, "", NoBrief, Void)
        /\ UNCHANGED heap

----------------------------------------------------------------------------
(* Briefs *)

\* Project.Brief has a constructor (handle, name, user); a caller builds one
\* for a user it holds.
ProjectBriefs ==
    {Brief(u, n, h) : u \in 1..Len(users), n \in Names, h \in ProjectHandles}

\* Version.Brief and File.Brief declare no constructor: `new Brief()` leaves
\* every field undefined.  A backend that fills the fields in (the lists of
\* Rest.ts never do) gives them an owner it holds, a display field and a handle.
VersionBriefs ==
    {Brief(undefined, undefinedStr, undefinedStr)}
        \cup {Brief(p, n, h) : p \in 1..Len(projects), n \in Names, h \in VersionHandles}

FileBriefs ==
    {Brief(undefined, undefinedStr, undefinedStr)}
        \cup {Brief(v, n, h) : v \in 1..Len(versions), n \in Paths, h \in FileHandles}

\* The call a Brief forwards: <<the owner whose collection is used, the handle>>.
File_Brief_open(b) == <<b.parent_, b.handle_>>

Version_Brief_open(b) == <<b.parent_, b.handle_>>

Version_Brief_restore(b) == <<b.parent_, b.handle_>>

\* A slip that forwards the display field instead of the handle.
Project_Brief_open_name(b) == <<b.parent_, b.name_>>

Project_Brief_open(b) == <<b.parent_, b.handle_>>

\* Reading `.files`, `.versions` or `.projects` of an undefined owner throws.
FileBrief_open ==
    \E b \in FileBriefs :
        LET fwd == File_Brief_open(b) IN
        IF fwd[1] = undefined
        THEN /\ last' = Call("File.Brief.open", undefined, "", b, Throw("TypeError"))
             /\ UNCHANGED heap
        ELSE /\ CanAllocate
             /\ files' = Append(files, RestVersion_Files_open(fwd[1], fwd[2]))
             /\ last' = Call("File.Brief.open", fwd[1], fwd[2], b, Obj(Len(files) + 1))
             /\ UNCHANGED <<clients, users, projects, versions>>

VersionBrief_open ==
    \E b \in VersionBriefs :
        LET fwd == Version_Brief_open(b) IN
        IF fwd[1] = undefined
        THEN /\ last' = Call("Version.Brief.open", undefined, "", b, Throw("TypeError"))
             /\ UNCHANGED heap
        ELSE /\ CanAllocate
             /\ versions' = Append(versions, RestProject_Versions_open(fwd[1], fwd[2]))
             /\ last' = Call("Version.Brief.open", fwd[1], fwd[2], b, Obj(Len(versions) + 1))
             /\ UNCHANGED <<clients, users, projects, files>>

VersionBrief_restore ==
    \E b \in VersionBriefs :
        LET fwd == Version_Brief_restore(b) IN
        IF fwd[1] = undefined
        THEN /\ last' = Call("Version.Brief.restore", undefined, "", b, Throw("TypeError"))
             /\ UNCHANGED heap
        ELSE /\ CanAllocate
             /\ versions' = Append(versions, RestProject_Versions_restore(fwd[1], fwd[2]))
             /\ last' = Call("Version.Brief.restore", fwd[1], fwd[2], b, Obj(Len(versions) + 1))
             /\ UNCHANGED <<clients, users, projects, files>>

ProjectBrief_open ==
    \E b \in ProjectBriefs :
        LET fwd == Project_Brief_open(b) IN
        /\ CanAllocate
        /\ projects' = Append(projects, RestUser_Projects_open(fwd[1], fwd[2]))
        /\ last' = Call("Project.Brief.open", fwd[1], fwd[2], b, Obj(Len(projects) + 1))
        /\ UNCHANGED <<clients, users, versions, files>>

----------------------------------------------------------------------------
Next ==
    \/ NewRestClient
    \/ Login
    \/ Projects_list
    \/ Projects_create
    \/ Projects_open
    \/ Projects_delete
    \/ Project_name
    \/ Project_close
    \/ Versions_list
    \/ Versions_create
    \/ Versions_restore
    \/ Versions_open
    \/ Files_list
    \/ Files_create
    \/ Files_open
    \/ File_path
    \/ File_move
    \/ File_read
    \/ File_update
    \/ File_close
    \/ FileBrief_open
    \/ VersionBrief_open
    \/ VersionBrief_restore
    \/ ProjectBrief_open

Spec == Init /\ [][Next]_vars

----------------------------------------------------------------------------
(* Properties.  A call and the call before it are `last'` and `last` of one  *)
(* step; a step that changes nothing is a repetition of the call before it.  *)

FileOps == {"File.path", "File.move", "File.read", "File.update", "File.close"}

ProjectOps == {"Project.name", "Project.close", "Versions.list", "Versions.create",
               "Versions.restore", "Versions.open"}

PushOps == {"Versions.create", "Versions.restore", "Version.Brief.restore"}

Handles(list) == {list[i].handle_ : i \in DOMAIN list}

\* C1 (HEAD invariant): versions.list() called on a project right after a
\* versions.create or versions.restore on it is not empty, and its element at
\* index 0 is the brief of the Version that call produced.
C1_HeadInvariant ==
    [][(/\ last.op \in PushOps
        /\ last.ret.type = "object"
        /\ last'.op = "Versions.list"
        /\ last'.recv = last.recv)
       => /\ last'.ret.type = "list"
          /\ Len(last'.ret.list) >= 1
          /\ last'.ret.list[1].handle_ = versions[last.ret.obj].handle_
          /\ last'.ret.list[1].parent_ = last.recv]_vars

\* C2 (non-destructive restore): versions.restore(V.handle), for the Version V
\* that versions.create just produced on the same project, returns a Version
\* whose handle differs from V.handle, leaves V as it was, and is the new
\* element at index 0 of versions.list(), which is one entry longer.
C2_NonDestructiveRestore ==
    [][(/\ last.op = "Versions.create"
        /\ last'.op = "Versions.restore"
        /\ last'.recv = last.recv
        /\ last'.arg = versions[last.ret.obj].handle_)
       => /\ last'.ret.type = "object"
          /\ versions'[last'.ret.obj].handle_ # versions[last.ret.obj].handle_
          /\ versions'[last.ret.obj] = versions[last.ret.obj]
          /\ Len(RestProject_Versions_list(last'.recv)') >= 2
          /\ RestProject_Versions_list(last'.recv)'[1].handle_
                 = versions'[last'.ret.obj].handle_]_vars

\* C3 (brief/open equivalence): the result of brief.open() on a File, Version
\* or Project brief is the result of open(brief.handle) on the collection of
\* the brief's owner: an object with the same handle and the same owner, or,
\* for a brief whose owner is undefined, the same TypeError.
C3_BriefOpenEquivalence ==
    /\ last.op = "File.Brief.open" =>
          IF last.brief.parent_ = undefined
          THEN last.ret = Throw("TypeError")
          ELSE /\ last.ret.type = "object"
               /\ files[last.ret.obj]
                      = RestVersion_Files_open(last.brief.parent_, last.brief.handle_)
    /\ last.op = "Version.Brief.open" =>
          IF last.brief.parent_ = undefined
          THEN last.ret = Throw("TypeError")
          ELSE /\ last.ret.type = "object"
               /\ versions[last.ret.obj]
                      = RestProject_Versions_open(last.brief.parent_, last.brief.handle_)
    /\ last.op = "Project.Brief.open" =>
          /\ last.ret.type = "object"
          /\ projects[last.ret.obj]
                 = RestUser_Projects_open(last.brief.parent_, last.brief.handle_)

\* A Project brief whose name differs from its handle has been opened.
C3_Witness ==
    /\ last.op = "Project.Brief.open"
    /\ last.brief.handle_ = "asdasd"
    /\ last.brief.name_ # last.brief.handle_
    /\ last.ret.type = "object"
    /\ projects[last.ret.obj].handle_ = "asdasd"

\* C4 (write/read round trip): read() called on a File right after
\* update(contents) on it returns exactly contents.
C4_WriteReadRoundTrip ==
    [][(/\ last.op = "File.update"
        /\ last'.op = "File.read"
        /\ last'.recv = last.recv)
       => last'.ret = Str(last.arg)]_vars

\* C5 (create conflict): files.create(path) on a Version right after a
\* files.create(path) on it returned a File fails with Conflict and constructs
\* no File.
C5_CreateConflict ==
    [][(/\ last.op = "Files.create"
        /\ last.ret.type = "object"
        /\ last'.op = "Files.create"
        /\ last'.recv = last.recv
        /\ last'.arg = last.arg)
       => /\ last'.ret = Throw("Conflict")
          /\ files' = files]_vars

\* C6 (use after close): an operation called on a File or Project right after
\* close() completed on it fails with InvalidState and changes no state.
C6_UseAfterClose ==
    [][(\/ last.op = "File.close" /\ last'.op \in FileOps
        \/ last.op = "Project.close" /\ last'.op \in ProjectOps)
       /\ last.ret.type = "void"
       /\ last'.recv = last.recv
       => /\ last'.ret = Throw("InvalidState")
          /\ heap' = heap]_vars

\* C7 (move): path() called on a File right after move(newPath) on it returns
\* newPath.
C7_MoveThenPath ==
    [][(/\ last.op = "File.move"
        /\ last.ret.type = "void"
        /\ last'.op = "File.path"
        /\ last'.recv = last.recv)
       => last'.ret = Str(last.arg)]_vars

\* C8 (handle uniqueness): two consecutive creates of the same entity type
\* return entities with different handles, and no object's handle ever changes.
C8_HandleUniqueness ==
    [][/\ (last.op = "Projects.create" /\ last'.op = "Projects.create")
            => projects'[last'.ret.obj].handle_ # projects[last.ret.obj].handle_
       /\ (last.op \in PushOps /\ last.ret.type = "object"
              /\ last'.op \in PushOps /\ last'.ret.type = "object")
            => versions'[last'.ret.obj].handle_ # versions[last.ret.obj].handle_
       /\ (last.op = "Files.create" /\ last'.op = "Files.create")
            => files'[last'.ret.obj].handle_ # files[last.ret.obj].handle_
       /\ \A i \in DOMAIN projects : projects'[i].handle_ = projects[i].handle_
       /\ \A i \in DOMAIN versions : versions'[i].handle_ = versions[i].handle_
       /\ \A i \in DOMAIN files : files'[i].handle_ = files[i].handle_]_vars

\* C9 (scoped lookup): versions.open(handle) and versions.restore(handle) on a
\* Project fail with NotFound and construct nothing when handle is neither in
\* versions.list() of the Project nor the handle of any Version the client
\* holds for it.
C9_ScopedLookup ==
    [][(/\ last'.op \in {"Versions.open", "Versions.restore"}
        /\ last'.arg \notin Handles(RestProject_Versions_list(last'.recv))
        /\ \A i \in DOMAIN versions : versions[i] # RestVersion(last'.arg, last'.recv))
       => /\ last'.ret = Throw("NotFound")
          /\ versions' = versions]_vars

\* C10 (navigation keeps parentage): the object login or an open returns has
\* the handle passed to open and refers back to the object whose collection
\* opened it, and no call, close included, changes the fields of an object.
C10_NavigationKeepsParentage ==
    [][/\ last'.op = "login" =>
            /\ last'.ret.type = "object"
            /\ users'[last'.ret.obj].client_ = last'.recv
            /\ last'.recv \in DOMAIN clients'
       /\ last'.op = "Projects.open" =>
            /\ last'.ret.type = "object"
            /\ projects'[last'.ret.obj].handle_ = last'.arg
            /\ projects'[last'.ret.obj].user_ = last'.recv
       /\ last'.op = "Versions.open" =>
            /\ last'.ret.type = "object"
            /\ versions'[last'.ret.obj].handle_ = last'.arg
            /\ versions'[last'.ret.obj].project_ = last'.recv
       /\ last'.op = "Files.open" =>
            /\ last'.ret.type = "object"
            /\ files'[last'.ret.obj].handle_ = last'.arg
            /\ files'[last'.ret.obj].version_ = last'.recv
       /\ \A i \in DOMAIN clients : clients'[i] = clients[i]
       /\ \A i \in DOMAIN users : users'[i] = users[i]
       /\ \A i \in DOMAIN projects : projects'[i] = projects[i]
       /\ \A i \in DOMAIN versions : versions'[i] = versions[i]
       /\ \A i \in DOMAIN files : files'[i] = files[i]]_vars

\* The chain of the usage example was walked with open at every level and the
\* File was then closed.
C10_Witness ==
    /\ last.op = "File.close"
    /\ files[last.recv].handle_ = "f1"
    /\ versions[files[last.recv].version_].handle_ = "asdasdds"
    /\ projects[versions[files[last.recv].version_].project_].handle_ = "asdasd"
    /\ users[projects[versions[files[last.recv].version_].project_].user_].client_
           \in DOMAIN clients

====
